---- MODULE Spec2Model ----
(***************************************************************************)
(* InkStack (src/src/App.jsx): a React component that posterises an image  *)
(* into tonal layers for lino-cut printing.  The module models             *)
(*   - the pixel engine renderToContext (bucketing, ink table, composite   *)
(*     and cut-guide output) as operators computed the way the code does,  *)
(*   - the component's state, its effects and its handlers as actions.     *)
(*                                                                         *)
(* Numbers.  The code computes the luminance in IEEE-754 doubles           *)
(* (0.299 * r + 0.587 * g + 0.114 * b, left to right).  The model keeps    *)
(* the exact value scaled by 1000 (Gray1000) together with the direction   *)
(* in which the double result is off from it (GrayUlp); e.g. in JavaScript *)
(* 0.299*128 + 0.587*128 + 0.114*128 is 127.99999999999999, not 128.       *)
(* Thresholds are integers (Math.round / parseInt), so `gray < t` is       *)
(* decided by these two.                                                   *)
(*                                                                         *)
(* Colours are the strings of <input type="color">, "#rrggbb", modelled as *)
(* the sequence of their six hexadecimal digits.                           *)
(***************************************************************************)
EXTENDS Integers, Sequences, FiniteSets, TLC

\* ------------------------------------------------------------------ bounds

\* Longest image (in pixels) the pure-render specification draws.
MaxPixels == 1

\* The largest layer count the UI offers ([3, 4, 5].map, line 640).
MaxLayerCount == 5

\* ------------------------------------------------------- the pixel domain

Pixel(r, g, b, a) == [r |-> r, g |-> g, b |-> b, a |-> a]

\* The RGBA values images are made of in this model.
Palette ==
  { Pixel(0, 0, 0, 255), Pixel(85, 85, 85, 255), Pixel(128, 128, 128, 255),
    Pixel(170, 170, 170, 255), Pixel(200, 30, 90, 128), Pixel(255, 255, 255, 0) }

\* An image: width x height RGBA pixels, row-major (ImageData.data, 4 bytes
\* per pixel).
ImagesOfLen(n) ==
  { [width |-> n, height |-> 1, data |-> d] : d \in [1..n -> Palette] }

ImagesUpTo(n) == UNION { ImagesOfLen(k) : k \in 1..n }

NoImage == [width |-> 0, height |-> 0, data |-> <<>>]

\* --------------------------------------------------------------- colours

HexDigits == 0..15

\* '#ffffff', '#000000' and the default inks of lines 56 and 94.
White   == <<15, 15, 15, 15, 15, 15>>
Black   == <<0, 0, 0, 0, 0, 0>>
Yellow  == <<15, 10, 12, 12, 1, 5>>
Red     == <<14, 15, 4, 4, 4, 4>>
Blue    == <<1, 14, 4, 0, 10, 15>>
Dark    == <<1, 7, 1, 7, 1, 7>>
\* (128, 64, 0), a colour a user may pick.
Brown   == <<8, 0, 4, 0, 0, 0>>

\* The value of a read past the end of an array.
Undefined == [r |-> -1, g |-> -1, b |-> -1]

hexToRgb(hex) ==
  IF Len(hex) = 6 /\ \A i \in 1..6 : hex[i] \in HexDigits
  THEN [r |-> 16 * hex[1] + hex[2],
        g |-> 16 * hex[3] + hex[4],
        b |-> 16 * hex[5] + hex[6]]
  ELSE [r |-> 0, g |-> 0, b |-> 0]

\* blendColors with Math.round in place of Math.floor.
blendColorsRounded(bg, fg) ==
  [r |-> (2 * bg.r * fg.r + 255) \div (2 * 255),
   g |-> (2 * bg.g * fg.g + 255) \div (2 * 255),
   b |-> (2 * bg.b * fg.b + 255) \div (2 * 255)]

blendColors(bg, fg) ==
  [r |-> (bg.r * fg.r) \div 255,
   g |-> (bg.g * fg.g) \div 255,
   b |-> (bg.b * fg.b) \div 255]

\* ------------------------------------------------------------- luminance

\* 1000 times the exact value of 0.299 r + 0.587 g + 0.114 b.
Gray1000(px) == 299 * px.r + 587 * px.g + 114 * px.b

\* The sign of (the double the code computes) - (the exact value), for the
\* pixels of Palette: -1 where the double falls below, +1 where above.
GrayUlp(px) ==
  CASE <<px.r, px.g, px.b>> = <<128, 128, 128>> -> -1
    [] <<px.r, px.g, px.b>> = <<200, 30, 90>>   -> 1
    [] OTHER -> 0

\* gray < t, for an integer threshold t.
GrayLess(px, t) ==
  \/ Gray1000(px) < 1000 * t
  \/ Gray1000(px) = 1000 * t /\ GrayUlp(px) < 0

\* ------------------------------------------------------- the render engine

\* The configuration renderToContext assembles (its closure, then overrides).
Tabs       == {"composite", "layers"}
CutModes   == {"stack", "zone"}
BlendModes == {"multiply", "normal"}

\* [...config.thresholds].sort((a, b) => a - b): an ascending copy.
RECURSIVE SortInsert(_, _)
SortInsert(s, x) ==
  IF s = <<>> THEN <<x>>
  ELSE IF x < Head(s) THEN <<x>> \o s
  ELSE <<Head(s)>> \o SortInsert(Tail(s), x)

\* The threshold list used in the order the sliders hold it.
thresholdsAsGiven(config) == config.thresholds

RECURSIVE SortAsc(_)
SortAsc(s) == IF s = <<>> THEN <<>> ELSE SortInsert(SortAsc(Tail(s)), Head(s))

sortedThresholds(config) == SortAsc(config.thresholds)

\* The scan `for (t = 0; ...) if (gray < sortedThresholds[t]) { bucketIndex = t;
\* break; }` from position t (1-based here, the bucket is 0-based), with the
\* default layerCount - 1.
RECURSIVE BucketScan(_, _, _, _)
BucketScan(px, sorted, t, dflt) ==
  IF t > Len(sorted) THEN dflt
  ELSE IF GrayLess(px, sorted[t]) THEN t - 1
  ELSE BucketScan(px, sorted, t + 1, dflt)

bucketIndex(px, config) ==
  BucketScan(px, sortedThresholds(config), 1, config.layerCount - 1)

\* The multiply loop `for (i = 0; i < inksToApplyCount; i++) if (inksRgb[i])
\* currentRGB = blendColors(currentRGB, inksRgb[i])`, from ink i (0-based).
RECURSIVE MultiplyInks(_, _, _, _)
MultiplyInks(currentRGB, inksRgb, i, inksToApplyCount) ==
  IF i >= inksToApplyCount THEN currentRGB
  ELSE MultiplyInks(
         IF i + 1 <= Len(inksRgb) THEN blendColors(currentRGB, inksRgb[i + 1])
         ELSE currentRGB,
         inksRgb, i + 1, inksToApplyCount)

\* The colour of bucket b (0-based); Undefined where the code reads past the
\* ink list.
BucketColor(config, b) ==
  LET bgRgb == hexToRgb(config.paperColor)
      inksRgb == [i \in 1..Len(config.inkColors) |-> hexToRgb(config.inkColors[i])]
      inksToApplyCount == (config.layerCount - 1) - b
  IN IF config.blendMode = "multiply"
     THEN MultiplyInks(bgRgb, inksRgb, 0, inksToApplyCount)
     ELSE IF inksToApplyCount > 0
          THEN IF inksToApplyCount <= Len(inksRgb)
               THEN inksRgb[inksToApplyCount]
               ELSE Undefined
          ELSE bgRgb

\* The table, one entry per bucket; empty outside the colour composite view.
bucketColors(config) ==
  IF config.activeTab = "composite" /\ config.isColorMode
  THEN [k \in 1..config.layerCount |-> BucketColor(config, k - 1)]
  ELSE <<>>

\* A store into the Uint8ClampedArray.
Clamp8(v) == IF v < 0 THEN 0 ELSE IF v > 255 THEN 255 ELSE v

\* GrayValue with Math.floor in place of Math.round.
GrayValueFloor(bucket, layerCount) ==
  LET d == layerCount - 1
  IN IF d = 0 THEN (IF bucket = 0 THEN 0 ELSE 255)
     ELSE Clamp8((255 * bucket) \div d)

\* Math.round((bucketIndex / (layerCount - 1)) * 255), then the clamped store.
GrayValue(bucket, layerCount) ==
  LET d == layerCount - 1
  IN IF d = 0 THEN (IF bucket = 0 THEN 0 ELSE 255)
     ELSE Clamp8((2 * 255 * bucket + d) \div (2 * d))

\* A turn of the loop that throws (c.r with c undefined).
Thrown == [r |-> -1, g |-> -1, b |-> -1, a |-> -1]

\* Mono writing the alpha byte too.
MonoOpaque(px, v) == [r |-> v, g |-> v, b |-> v, a |-> 255]

Mono(px, v) == [r |-> v, g |-> v, b |-> v, a |-> px.a]

\* --- COMPOSITE PREVIEW MODE ---
CompositePixel(px, config) ==
  LET b == bucketIndex(px, config)
      colors == bucketColors(config)
  IN IF config.isColorMode
     THEN IF b + 1 > Len(colors) \/ colors[b + 1] = Undefined
          THEN Thrown
          ELSE [r |-> colors[b + 1].r, g |-> colors[b + 1].g,
                b |-> colors[b + 1].b, a |-> px.a]
     ELSE Mono(px, GrayValue(b, config.layerCount))

\* ZonePixel with step 1 mapped to the paper bucket (the `+ 1` dropped).
ZonePixelFromPaper(px, config) ==
  LET targetBucket == (config.layerCount - 1) - config.selectedLayerIndex
      isKeep == (bucketIndex(px, config) = targetBucket)
  IN [r |-> IF isKeep # config.inverted THEN 0 ELSE 255,
      g |-> IF isKeep # config.inverted THEN 0 ELSE 255,
      b |-> IF isKeep # config.inverted THEN 0 ELSE 255,
      a |-> px.a]

\* ZonePixel keeping every bucket up to the target bucket.
ZonePixelUpToTarget(px, config) ==
  LET targetBucket == (config.layerCount - 1) - (config.selectedLayerIndex + 1)
      isKeep == (bucketIndex(px, config) <= targetBucket)
  IN Mono(px, IF isKeep # config.inverted THEN 0 ELSE 255)

\* --- ZONE MODE (ISOLATED) ---
ZonePixel(px, config) ==
  LET targetBucket == (config.layerCount - 1) - (config.selectedLayerIndex + 1)
      isKeep == (bucketIndex(px, config) = targetBucket)
  IN Mono(px, IF isKeep # config.inverted THEN 0 ELSE 255)

\* --- STACK MODE (REDUCTION) ---
StackPixel(px, config) ==
  LET sorted == sortedThresholds(config)
      thresholdIndex == Len(sorted) - 1 - config.selectedLayerIndex
  IN IF thresholdIndex < 0 \/ thresholdIndex >= Len(sorted)
     THEN IF thresholdIndex < 0
          THEN Mono(px, 255)
          \* sortedThresholds[thresholdIndex] is undefined: gray < undefined
          \* is false
          ELSE Mono(px, IF config.inverted THEN 0 ELSE 255)
     ELSE LET isKeep == GrayLess(px, sorted[thresholdIndex + 1])
          IN Mono(px, IF isKeep # config.inverted THEN 0 ELSE 255)

\* One turn of the processing loop.
ProcessPixel(px, config) ==
  IF config.activeTab = "composite" THEN CompositePixel(px, config)
  ELSE IF config.cutMode = "zone" THEN ZonePixel(px, config)
  ELSE StackPixel(px, config)

\* ctx.drawImage(source, 0, 0, width, height) then getImageData: the source
\* itself when the sizes agree, else the source resampled to width x height
\* (nearest neighbour; the browser's smoothing is not modelled).
DrawImage(source, width, height) ==
  IF width = source.width /\ height = source.height THEN source.data
  ELSE [i \in 1..(width * height) |->
          source.data[(((i - 1) * Len(source.data)) \div (width * height)) + 1]]

\* renderToContext(ctx, width, height, overrides): what the canvas holds after
\* the call.  kind is "crop" (the crop overlay over the master), "skip" (no
\* working image: the canvas is left as it was), "normal", or "throw" (a
\* TypeError left the loop: putImageData is not reached and the canvas holds
\* the drawn source).
renderToContext(config, master, source, canvas, width, height) ==
  IF config.isCropping /\ master # NoImage
  THEN [kind |-> "crop", width |-> width, height |-> height,
        data |-> DrawImage(master, width, height)]
  ELSE IF source = NoImage
  THEN [kind |-> "skip", width |-> canvas.width, height |-> canvas.height,
        data |-> canvas.data]
  ELSE LET data == DrawImage(source, width, height)
           out == [i \in 1..Len(data) |-> ProcessPixel(data[i], config)]
       IN IF \E i \in 1..Len(data) : out[i] = Thrown
          THEN [kind |-> "throw", width |-> width, height |-> height,
                data |-> data]
          ELSE [kind |-> "normal", width |-> width, height |-> height,
                data |-> out]

\* ----------------------------------------------------- the component state

VARIABLES
  \* useState, lines 38-64
  image, imageDimensions,
  layerCount, thresholds,
  activeTab, selectedLayerIndex, inverted, cutMode,
  isColorMode, blendMode, paperColor, inkColors,
  isExporting, isCropping,
  \* useRef, lines 69-70: the working and the master image
  sourceImageRef, originalImageRef,
  \* image loads in flight (an Image whose onload has not run yet)
  loads,
  \* useState, lines 62-64: the crop rectangle (NoRect for null), in
  \* coordinates of the master image
  cropRect, isSelectingCrop, cropStart,
  \* history: resetToOriginal has run and the user has neither applied a crop
  \* nor uploaded since
  sinceReset,
  \* "layers": the two [layerCount] effects have run and the render their
  \* setState calls ask for is due; "render": a render of the values as they
  \* are is due; "none": nothing is due
  pending,
  \* an effect threw: React has unmounted the component
  crashed,
  \* the last invocation of renderToContext by the Main Effect
  lastCall,
  \* handleDownloadAll: the values its closure holds, the index of its loop
  \* (-1 when it is not running) and the files handed to the browser
  exportClosure, exportI, files

cfgVars == <<layerCount, thresholds, activeTab, selectedLayerIndex, inverted,
             cutMode, isColorMode, blendMode, paperColor, inkColors>>
imgVars == <<image, imageDimensions, isCropping, sourceImageRef,
             originalImageRef, loads, cropRect, isSelectingCrop, cropStart,
             sinceReset>>
runVars == <<pending, crashed, lastCall>>
expVars == <<isExporting, exportClosure, exportI, files>>
vars == <<cfgVars, imgVars, runVars, expVars>>

\* useState(null) of line 62 and a rectangle { x, y, w, h }.
NoRect == [x |-> -1, y |-> -1, w |-> 0, h |-> 0]

Rect(x, y, w, h) == [x |-> x, y |-> y, w |-> w, h |-> h]

\* { x: 0, y: 0, w: width, h: height } of an image.
FullRect(img) == Rect(0, 0, img.width, img.height)

\* The closure part of `config`, lines 250-263.
Config ==
  [activeTab |-> activeTab, layerCount |-> layerCount, thresholds |-> thresholds,
   selectedLayerIndex |-> selectedLayerIndex, inverted |-> inverted,
   cutMode |-> cutMode, isColorMode |-> isColorMode, paperColor |-> paperColor,
   inkColors |-> inkColors, blendMode |-> blendMode, isCropping |-> isCropping]

BlankCanvas(w, h) == [kind |-> "blank", width |-> w, height |-> h, data |-> <<>>]

\* The configuration of the first render (useState, lines 42-62).
InitialConfig ==
  [activeTab |-> "composite", layerCount |-> 3, thresholds |-> <<85, 170>>,
   selectedLayerIndex |-> 0, inverted |-> FALSE, cutMode |-> "stack",
   isColorMode |-> FALSE, paperColor |-> White,
   inkColors |-> <<Yellow, Red, Dark, Black>>, blendMode |-> "multiply",
   isCropping |-> FALSE]

NoCall ==
  [by |-> "none", config |-> InitialConfig, source |-> NoImage,
   result |-> BlankCanvas(0, 0)]

\* One invocation of the engine, as lastCall records it.
Call(by, config, source, result) ==
  [by |-> by, config |-> config, source |-> source, result |-> result]

NoClosure == [config |-> InitialConfig, width |-> 0, height |-> 0]

\* Math.round((255 / layerCount) * i), i = 1 .. layerCount - 1 (lines 74-79).
DefaultThresholds(n) ==
  [i \in 1..(n - 1) |-> (2 * 255 * i + n) \div (2 * n)]

\* const defaults = [...] of line 94, and `|| '#000000'`.
InkDefault(k) ==
  IF k = 0 THEN Yellow ELSE IF k = 1 THEN Red ELSE IF k = 2 THEN Blue
  ELSE IF k = 3 THEN Dark ELSE Black

RECURSIVE PadInks(_, _)
PadInks(inks, neededInks) ==
  IF Len(inks) >= neededInks THEN inks
  ELSE PadInks(Append(inks, InkDefault(Len(inks))), neededInks)

\* The updater of setInkColors, lines 89-103.
SyncInks(prev, neededInks) ==
  IF Len(prev) = neededInks THEN prev
  ELSE IF Len(prev) < neededInks THEN PadInks(prev, neededInks)
  ELSE SubSeq(prev, 1, neededInks)

\* `if (selectedLayerIndex >= layerCount) setSelectedLayerIndex(0)`, lines 81-83.
ResetSelected(sel, n) == IF sel >= n THEN 0 ELSE sel

\* The Main Effect, lines 417-434, of a render with the given values: with an
\* image it sizes the canvas and invokes the engine.
MainEffectResult(config, dims, original, source) ==
  LET w == IF config.isCropping /\ original # NoImage
           THEN original.width ELSE dims.width
      h == IF config.isCropping /\ original # NoImage
           THEN original.height ELSE dims.height
  IN renderToContext(config, original, source, BlankCanvas(w, h), w, h)

MainEffectCall(config, img, dims, original, source) ==
  IF img # NoImage
  THEN Call("effect", config, source,
            MainEffectResult(config, dims, original, source))
  ELSE NoCall

\* A handler's setState calls are followed by the render of the new values
\* and, one of its dependencies having changed, by the Main Effect of that
\* render; an error thrown by the effect unmounts the component.
RenderNewState(config, img, dims, original, source) ==
  LET call == MainEffectCall(config, img, dims, original, source)
  IN /\ lastCall' = call
     /\ crashed' = (call.result.kind = "throw")

\* The same for a handler that sets configuration values only.
RenderConfig(config) ==
  RenderNewState(config, image, imageDimensions, originalImageRef,
                 sourceImageRef)

\* The render asked for by the [layerCount] effects (lines 73-84, 87-104),
\* which ran after the render of the new layerCount with the values of that
\* render: the default thresholds, the selected step reset, the inks padded
\* or trimmed; then the Main Effect of this render.
Commit ==
  /\ pending = "layers"
  /\ ~crashed
  /\ thresholds' = DefaultThresholds(layerCount)
  /\ selectedLayerIndex' = ResetSelected(selectedLayerIndex, layerCount)
  /\ inkColors' = SyncInks(inkColors, layerCount - 1)
  /\ pending' = "none"
  /\ UNCHANGED <<layerCount, activeTab, inverted, cutMode, isColorMode,
                 blendMode, paperColor>>
  /\ UNCHANGED <<imgVars, expVars>>
  /\ RenderConfig([Config EXCEPT
       !.thresholds = DefaultThresholds(layerCount),
       !.selectedLayerIndex = ResetSelected(selectedLayerIndex, layerCount),
       !.inkColors = SyncInks(inkColors, layerCount - 1)])

\* The Main Effect alone, for a render that is due with the values as they
\* are.
MainEffect ==
  /\ pending = "render"
  /\ ~crashed
  /\ pending' = "none"
  /\ UNCHANGED <<cfgVars, imgVars, expVars>>
  /\ RenderConfig(Config)

\* ------------------------------------------- the engine on arbitrary inputs

\* Threshold values the pure-render specification draws lists from.
ThresholdValues == {85, 128, 170}

InkChoices == {Yellow, Black, Brown}

\* Cut-guide inputs: every layer count, threshold list (in any order), step,
\* strategy, inversion and image of the bounds.
InitCutInputs ==
  /\ activeTab = "layers"
  /\ layerCount \in 2..MaxLayerCount
  /\ thresholds \in [1..(layerCount - 1) -> ThresholdValues]
  /\ selectedLayerIndex \in 0..(layerCount - 2)
  /\ inverted \in BOOLEAN
  /\ cutMode \in CutModes
  /\ isColorMode = FALSE
  /\ blendMode = "multiply"
  /\ paperColor = White
  /\ inkColors = PadInks(<<>>, layerCount - 1)

\* Grayscale composite inputs.
InitGrayInputs ==
  /\ activeTab = "composite"
  /\ layerCount \in 2..MaxLayerCount
  /\ thresholds \in [1..(layerCount - 1) -> ThresholdValues]
  /\ selectedLayerIndex = 0
  /\ inverted = FALSE
  /\ cutMode = "stack"
  /\ isColorMode = FALSE
  /\ blendMode = "multiply"
  /\ paperColor = White
  /\ inkColors = PadInks(<<>>, layerCount - 1)

\* Colour composite inputs.
InitColorInputs ==
  /\ activeTab = "composite"
  /\ layerCount \in 2..MaxLayerCount
  /\ thresholds = DefaultThresholds(layerCount)
  /\ selectedLayerIndex = 0
  /\ inverted = FALSE
  /\ cutMode = "stack"
  /\ isColorMode = TRUE
  /\ blendMode \in BlendModes
  /\ paperColor \in {White, Yellow}
  /\ inkColors \in [1..(layerCount - 1) -> InkChoices]

InitRender ==
  /\ InitCutInputs \/ InitGrayInputs \/ InitColorInputs
  /\ image \in ImagesUpTo(MaxPixels)
  /\ sourceImageRef = image
  /\ originalImageRef = image
  /\ imageDimensions = [width |-> image.width, height |-> image.height]
  /\ isCropping = FALSE
  /\ loads = {}
  /\ cropRect = NoRect
  /\ isSelectingCrop = FALSE
  /\ cropStart = [x |-> 0, y |-> 0]
  /\ sinceReset = FALSE
  /\ pending = "render"
  /\ crashed = FALSE
  /\ lastCall = NoCall
  /\ isExporting = FALSE
  /\ exportClosure = NoClosure
  /\ exportI = -1
  /\ files = <<>>

\* The engine applied to each drawn input by the Main Effect.
SpecRender == InitRender /\ [][MainEffect]_vars

\* ------------------------------------------------------------ the handlers

\* Values a user sets in this model: a threshold slider position, a colour
\* picked for an ink, the files uploaded.
SliderValues == {128}
PickedInks   == {Brown}
UploadImages ==
  { [width |-> 2, height |-> 1,
     data |-> <<Pixel(0, 0, 0, 255), Pixel(170, 170, 170, 255)>>] }

\* [3, 4, 5].map(...), line 640.
LayerChoices == {3, 4, 5}

\* A handler or callback runs when the renders of the previous update are
\* done and the component is mounted.
Idle == pending = "none" /\ ~crashed

\* Sections 2-6 of the sidebar take pointer events (lines 610, 633, 657, 684,
\* 744).
ControlsOn == image # NoImage /\ ~isCropping

\* onClick={() => setLayerCount(num)}, line 643, and the render of the new
\* layerCount: its Main Effect reads the new layerCount with the thresholds,
\* inks and selected step as they were.
SetLayerCount ==
  /\ Idle /\ ControlsOn
  /\ \E num \in LayerChoices :
       /\ num # layerCount
       /\ layerCount' = num
  /\ pending' = "layers"
  /\ UNCHANGED <<thresholds, activeTab, selectedLayerIndex, inverted, cutMode,
                 isColorMode, blendMode, paperColor, inkColors>>
  /\ UNCHANGED <<imgVars, expVars>>
  /\ RenderConfig([Config EXCEPT !.layerCount = layerCount'])

\* handleSliderChange(index, value), lines 436-440.
HandleSliderChange ==
  /\ Idle /\ ControlsOn
  /\ \E index \in 1..Len(thresholds), value \in SliderValues :
       thresholds' = [thresholds EXCEPT ![index] = value]
  /\ UNCHANGED <<layerCount, activeTab, selectedLayerIndex, inverted, cutMode,
                 isColorMode, blendMode, paperColor, inkColors>>
  /\ UNCHANGED <<imgVars, expVars, pending>>
  /\ RenderConfig([Config EXCEPT !.thresholds = thresholds'])

\* handleInkColorChange(index, value), lines 442-446; the inputs are shown in
\* colour mode (line 701).
HandleInkColorChange ==
  /\ Idle /\ ControlsOn /\ isColorMode
  /\ \E index \in 1..Len(inkColors), value \in PickedInks :
       inkColors' = [inkColors EXCEPT ![index] = value]
  /\ UNCHANGED <<layerCount, thresholds, activeTab, selectedLayerIndex, inverted,
                 cutMode, isColorMode, blendMode, paperColor>>
  /\ UNCHANGED <<imgVars, expVars, pending>>
  /\ RenderConfig([Config EXCEPT !.inkColors = inkColors'])

\* onClick={() => setIsColorMode(!isColorMode)}, line 693.
ToggleColorMode ==
  /\ Idle /\ ControlsOn
  /\ isColorMode' = ~isColorMode
  /\ UNCHANGED <<layerCount, thresholds, activeTab, selectedLayerIndex, inverted,
                 cutMode, blendMode, paperColor, inkColors>>
  /\ UNCHANGED <<imgVars, expVars, pending>>
  /\ RenderConfig([Config EXCEPT !.isColorMode = ~isColorMode])

\* onClick={() => setBlendMode(...)}, line 707.
ToggleBlendMode ==
  /\ Idle /\ ControlsOn /\ isColorMode
  /\ blendMode' = IF blendMode = "normal" THEN "multiply" ELSE "normal"
  /\ UNCHANGED <<layerCount, thresholds, activeTab, selectedLayerIndex, inverted,
                 cutMode, isColorMode, paperColor, inkColors>>
  /\ UNCHANGED <<imgVars, expVars, pending>>
  /\ RenderConfig([Config EXCEPT !.blendMode = blendMode'])

\* onClick={() => setActiveTab(...)}, lines 749 and 760.
SetActiveTab ==
  /\ Idle /\ ControlsOn
  /\ \E tab \in Tabs :
       /\ tab # activeTab
       /\ activeTab' = tab
  /\ UNCHANGED <<layerCount, thresholds, selectedLayerIndex, inverted, cutMode,
                 isColorMode, blendMode, paperColor, inkColors>>
  /\ UNCHANGED <<imgVars, expVars, pending>>
  /\ RenderConfig([Config EXCEPT !.activeTab = activeTab'])

\* The cut stage buttons, Array.from({ length: layerCount - 1 }), lines
\* 776-789, shown on the Cut Guides tab.
SetSelectedLayerIndex ==
  /\ Idle /\ ControlsOn /\ activeTab = "layers"
  /\ \E idx \in 0..(layerCount - 2) :
       /\ idx # selectedLayerIndex
       /\ selectedLayerIndex' = idx
  /\ UNCHANGED <<layerCount, thresholds, activeTab, inverted, cutMode,
                 isColorMode, blendMode, paperColor, inkColors>>
  /\ UNCHANGED <<imgVars, expVars, pending>>
  /\ RenderConfig([Config EXCEPT !.selectedLayerIndex = selectedLayerIndex'])

\* onClick={() => setCutMode(...)}, lines 797 and 804.
SetCutMode ==
  /\ Idle /\ ControlsOn /\ activeTab = "layers"
  /\ \E mode \in CutModes :
       /\ mode # cutMode
       /\ cutMode' = mode
  /\ UNCHANGED <<layerCount, thresholds, activeTab, selectedLayerIndex, inverted,
                 isColorMode, blendMode, paperColor, inkColors>>
  /\ UNCHANGED <<imgVars, expVars, pending>>
  /\ RenderConfig([Config EXCEPT !.cutMode = cutMode'])

\* onClick={() => setInverted(!inverted)}, line 814.
ToggleInverted ==
  /\ Idle /\ ControlsOn /\ activeTab = "layers"
  /\ inverted' = ~inverted
  /\ UNCHANGED <<layerCount, thresholds, activeTab, selectedLayerIndex, cutMode,
                 isColorMode, blendMode, paperColor, inkColors>>
  /\ UNCHANGED <<imgVars, expVars, pending>>
  /\ RenderConfig([Config EXCEPT !.inverted = ~inverted])

\* handleImageUpload up to `optimizedImg.src = ...` (lines 107-137): the file
\* is read, scaled and handed to an Image that loads later.  The file input
\* is shown outside crop mode (line 535).  No state is set: nothing renders.
UploadFile(imgs) ==
  /\ Idle /\ ~isCropping
  /\ \E img \in imgs :
       loads' = loads \cup {[kind |-> "upload", img |-> img,
                             width |-> img.width, height |-> img.height]}
  /\ sinceReset' = FALSE
  /\ UNCHANGED lastCall
  /\ UNCHANGED <<image, imageDimensions, isCropping, sourceImageRef,
                 originalImageRef, cropRect, isSelectingCrop, cropStart>>
  /\ UNCHANGED <<cfgVars, expVars, pending, crashed>>

HandleImageUpload == UploadFile(UploadImages)

\* optimizedImg.onload, lines 138-144.
OptimizedImgOnload ==
  /\ Idle
  /\ \E l \in loads :
       /\ l.kind = "upload"
       /\ originalImageRef' = l.img
       /\ sourceImageRef' = l.img
       /\ imageDimensions' = [width |-> l.img.width, height |-> l.img.height]
       /\ image' = l.img
       /\ cropRect' = FullRect(l.img)
       /\ loads' = loads \ {l}
  /\ UNCHANGED <<isCropping, isSelectingCrop, cropStart, sinceReset>>
  /\ UNCHANGED <<cfgVars, expVars, pending>>
  /\ RenderNewState(Config, image', imageDimensions', originalImageRef',
                    sourceImageRef')

\* startCropMode, lines 152-164 (the button is shown with an image, outside
\* crop mode, line 563).
StartCropMode ==
  /\ Idle /\ image # NoImage /\ ~isCropping
  /\ originalImageRef # NoImage
  /\ isCropping' = TRUE
  /\ cropRect' = IF cropRect = NoRect THEN FullRect(originalImageRef)
                 ELSE cropRect
  /\ UNCHANGED <<image, imageDimensions, sourceImageRef, originalImageRef, loads,
                 isSelectingCrop, cropStart, sinceReset>>
  /\ UNCHANGED <<cfgVars, expVars, pending>>
  /\ RenderConfig([Config EXCEPT !.isCropping = TRUE])

\* cancelCrop, lines 166-169.
CancelCrop ==
  /\ Idle /\ isCropping
  /\ isCropping' = FALSE
  /\ isSelectingCrop' = FALSE
  /\ UNCHANGED <<image, imageDimensions, sourceImageRef, originalImageRef, loads,
                 cropRect, cropStart, sinceReset>>
  /\ UNCHANGED <<cfgVars, expVars, pending>>
  /\ RenderConfig([Config EXCEPT !.isCropping = FALSE])

\* A second file a user uploads where the model needs two masters.
OtherUploadImages ==
  { [width |-> 1, height |-> 1, data |-> <<Pixel(128, 128, 128, 255)>>] }

HandleImageUploadAny == UploadFile(UploadImages \cup OtherUploadImages)

\* Positions of the mouse over the canvas, in canvas coordinates (lines
\* 215-220): in crop mode the canvas has the master's size (lines 422-424).
\* Whole pixels only.
MousePoints ==
  {[x |-> px, y |-> py] : px \in 0..originalImageRef.width,
                          py \in 0..originalImageRef.height}

\* handleMouseDown, lines 213-225.
HandleMouseDown ==
  /\ Idle /\ image # NoImage /\ isCropping
  /\ \E p \in MousePoints :
       /\ cropStart' = p
       /\ cropRect' = Rect(p.x, p.y, 0, 0)
  /\ isSelectingCrop' = TRUE
  /\ UNCHANGED <<image, imageDimensions, isCropping, sourceImageRef,
                 originalImageRef, loads, sinceReset>>
  /\ UNCHANGED <<cfgVars, expVars, pending>>
  /\ RenderConfig(Config)

\* handleMouseMove, lines 227-242.
HandleMouseMove ==
  /\ Idle /\ image # NoImage /\ isCropping /\ isSelectingCrop
  /\ \E p \in MousePoints :
       cropRect' = Rect(cropStart.x, cropStart.y,
                        p.x - cropStart.x, p.y - cropStart.y)
  /\ UNCHANGED <<image, imageDimensions, isCropping, sourceImageRef,
                 originalImageRef, loads, isSelectingCrop, cropStart,
                 sinceReset>>
  /\ UNCHANGED <<cfgVars, expVars, pending>>
  /\ RenderConfig(Config)

\* handleMouseUp, lines 244-246 (onMouseUp and onMouseLeave of the canvas).
\* isSelectingCrop is no dependency of the Main Effect.
HandleMouseUp ==
  /\ Idle /\ image # NoImage
  /\ isSelectingCrop' = FALSE
  /\ UNCHANGED <<image, imageDimensions, isCropping, sourceImageRef,
                 originalImageRef, loads, cropRect, cropStart, sinceReset>>
  /\ UNCHANGED <<cfgVars, expVars, runVars>>

\* applyCrop's rectangle with the corner as the mouse left it (no
\* normalisation of negative w / h beyond the size).
finalRectRaw(rect) ==
  Rect(rect.x, rect.y,
       IF rect.w < 0 THEN -rect.w ELSE rect.w,
       IF rect.h < 0 THEN -rect.h ELSE rect.h)

\* finalX, finalY, finalW, finalH of lines 177-181.
finalRect(rect) ==
  Rect(IF rect.w < 0 THEN rect.x + rect.w ELSE rect.x,
       IF rect.h < 0 THEN rect.y + rect.h ELSE rect.y,
       IF rect.w < 0 THEN -rect.w ELSE rect.w,
       IF rect.h < 0 THEN -rect.h ELSE rect.h)

\* The pixel of an image at a column and row; outside the image drawImage
\* draws nothing and the canvas stays transparent black.
PixelAt(img, col, row) ==
  IF col >= 0 /\ col < img.width /\ row >= 0 /\ row < img.height
  THEN img.data[row * img.width + col + 1]
  ELSE Pixel(0, 0, 0, 0)

\* tempCanvas after ctx.drawImage(master, finalX, finalY, finalW, finalH, 0, 0,
\* finalW, finalH), lines 183-188, as the image newImg loads from it.
CropImage(master, r) ==
  [width |-> r.w, height |-> r.h,
   data |-> [i \in 1..(r.w * r.h) |->
               PixelAt(master, r.x + ((i - 1) % r.w), r.y + ((i - 1) \div r.w))]]

\* applyCrop without the test of line 175.
applyCropUnguarded(rect, master) ==
  IF rect = NoRect \/ master = NoImage THEN {}
  ELSE {[kind |-> "crop", img |-> CropImage(master, finalRect(rect)),
         width |-> finalRect(rect).w, height |-> finalRect(rect).h]}

\* applyCrop, lines 171-198: the image loads it starts (none on an early
\* return), each with the finalW and finalH its onload will store.
applyCrop(rect, master) ==
  IF rect = NoRect \/ master = NoImage THEN {}
  ELSE IF rect.w = 0 \/ rect.h = 0 THEN {}
  ELSE {[kind |-> "crop", img |-> CropImage(master, finalRect(rect)),
         width |-> finalRect(rect).w, height |-> finalRect(rect).h]}

\* The Apply Crop button, line 599, shown in crop mode.  No state is set.
ApplyCrop ==
  /\ Idle /\ isCropping
  /\ loads' = loads \cup applyCrop(cropRect, originalImageRef)
  /\ sinceReset' = (sinceReset /\ applyCrop(cropRect, originalImageRef) = {})
  /\ UNCHANGED <<image, imageDimensions, isCropping, sourceImageRef,
                 originalImageRef, cropRect, isSelectingCrop, cropStart>>
  /\ UNCHANGED <<cfgVars, expVars, runVars>>

\* newImg.onload with the master replaced by the cropped image.
MasterReplaced(newImg) == newImg

\* originalImageRef.current after newImg.onload, which assigns
\* sourceImageRef.current only (lines 191-196).
MasterKept(newImg) == originalImageRef

\* newImg.onload, lines 191-196.
NewImgOnload ==
  /\ Idle
  /\ \E l \in loads :
       /\ l.kind = "crop"
       /\ sourceImageRef' = l.img
       /\ imageDimensions' = [width |-> l.width, height |-> l.height]
       /\ image' = l.img
       /\ originalImageRef' = MasterKept(l.img)
       /\ loads' = loads \ {l}
  /\ isCropping' = FALSE
  /\ UNCHANGED <<cropRect, isSelectingCrop, cropStart, sinceReset>>
  /\ UNCHANGED <<cfgVars, expVars, pending>>
  /\ RenderNewState([Config EXCEPT !.isCropping = FALSE], image',
                    imageDimensions', originalImageRef', sourceImageRef')

\* resetToOriginal, lines 200-210 (the button is shown with an image, outside
\* crop mode, line 570).
ResetToOriginal ==
  /\ Idle /\ image # NoImage /\ ~isCropping
  /\ originalImageRef # NoImage
  /\ sourceImageRef' = originalImageRef
  /\ imageDimensions' = [width |-> originalImageRef.width,
                         height |-> originalImageRef.height]
  /\ image' = originalImageRef
  /\ isCropping' = FALSE
  /\ cropRect' = FullRect(originalImageRef)
  /\ sinceReset' = TRUE
  /\ UNCHANGED <<originalImageRef, loads, isSelectingCrop, cropStart>>
  /\ UNCHANGED <<cfgVars, expVars, pending>>
  /\ RenderNewState([Config EXCEPT !.isCropping = FALSE], image',
                    imageDimensions', originalImageRef, sourceImageRef')

\* ------------------------------------------------------------ batch export

\* ExportBase read from the component's current values at each call instead
\* of from the closure.
ExportBaseLive == Config

\* The values handleDownloadAll's closure holds: those of the render whose
\* button was clicked.
ExportBase == exportClosure.config

\* The overrides of the two renderToContext calls, lines 472 and 478-484.
PreviewConfig ==
  [ExportBase EXCEPT !.activeTab = "composite", !.isCropping = FALSE]

CutGuideConfig(i) ==
  [ExportBase EXCEPT !.activeTab = "layers", !.selectedLayerIndex = i,
                     !.inverted = ExportBase.inverted,
                     !.cutMode = ExportBase.cutMode, !.isCropping = FALSE]

\* tempCanvas, as the last call left it.
TempCanvas ==
  IF files = <<>> THEN BlankCanvas(exportClosure.width, exportClosure.height)
  ELSE files[Len(files)].canvas

\* renderToContext(ctx, width, height, {...}) on tempCanvas.
ExportRender(config) ==
  renderToContext(config, originalImageRef, sourceImageRef, TempCanvas,
                  exportClosure.width, exportClosure.height)

\* downloadFile(tempCanvas, name): 'linocut-00-preview.png' is <<"preview", 0>>,
\* `linocut-${modePrefix}-0${i + 1}-step-${i + 1}.png` is <<modePrefix, i + 1>>.
File(name, config, result) ==
  [name |-> name, config |-> config, source |-> sourceImageRef, canvas |-> result]

\* handleDownloadAll up to its first await, lines 461-474.  The button is
\* shown with an image outside crop mode and disabled while isExporting
\* (lines 503-507).
HandleDownloadAll ==
  /\ Idle /\ image # NoImage /\ ~isCropping /\ ~isExporting
  /\ sourceImageRef # NoImage
  /\ UNCHANGED <<cfgVars, imgVars, runVars>>
  /\ isExporting' = TRUE
  /\ exportClosure' = [config |-> Config, width |-> imageDimensions.width,
                       height |-> imageDimensions.height]
  /\ LET result == renderToContext(
                     [Config EXCEPT !.activeTab = "composite", !.isCropping = FALSE],
                     originalImageRef, sourceImageRef,
                     BlankCanvas(imageDimensions.width, imageDimensions.height),
                     imageDimensions.width, imageDimensions.height)
     IN IF result.kind = "throw"
        THEN files' = <<>> /\ exportI' = -1
        ELSE /\ files' = <<File(<<"preview", 0>>, PreviewConfig', result)>>
             /\ exportI' = 0

\* One turn of the loop of lines 477-488, after the timer of the previous
\* await.
ExportCutGuide ==
  /\ pending = "none" \/ crashed
  /\ exportI >= 0 /\ exportI < ExportBase.layerCount - 1
  /\ LET config == CutGuideConfig(exportI)
         result == ExportRender(config)
         modePrefix == IF ExportBase.cutMode = "zone" THEN "isolated" ELSE "reduction"
     IN IF result.kind = "throw"
        THEN UNCHANGED files /\ exportI' = -1
        ELSE /\ files' = Append(files, File(<<modePrefix, exportI + 1>>, config, result))
             /\ exportI' = exportI + 1
  /\ UNCHANGED <<isExporting, exportClosure>>
  /\ UNCHANGED <<cfgVars, imgVars, runVars>>

\* The loop ends: setIsExporting(false), line 490.
ExportFinish ==
  /\ pending = "none" \/ crashed
  /\ exportI >= 0 /\ ~(exportI < ExportBase.layerCount - 1)
  /\ isExporting' = FALSE
  /\ exportI' = -1
  /\ UNCHANGED <<exportClosure, files>>
  /\ UNCHANGED <<cfgVars, imgVars, runVars>>

\* --------------------------------------------------------- specifications

\* useState initial values (lines 38-64) after the first render: the two
\* [layerCount] effects have run, the Main Effect found no image.
Init ==
  /\ image = NoImage
  /\ imageDimensions = [width |-> 0, height |-> 0]
  /\ layerCount = 3
  /\ thresholds = <<85, 170>>
  /\ activeTab = "composite"
  /\ selectedLayerIndex = 0
  /\ inverted = FALSE
  /\ cutMode = "stack"
  /\ isColorMode = FALSE
  /\ blendMode = "multiply"
  /\ paperColor = White
  /\ inkColors = <<Yellow, Red, Dark, Black>>
  /\ isExporting = FALSE
  /\ isCropping = FALSE
  /\ sourceImageRef = NoImage
  /\ originalImageRef = NoImage
  /\ loads = {}
  /\ cropRect = NoRect
  /\ isSelectingCrop = FALSE
  /\ cropStart = [x |-> 0, y |-> 0]
  /\ sinceReset = FALSE
  /\ pending = "layers"
  /\ crashed = FALSE
  /\ lastCall = NoCall
  /\ exportClosure = NoClosure
  /\ exportI = -1
  /\ files = <<>>

Next ==
  \/ Commit
  \/ SetLayerCount
  \/ HandleSliderChange
  \/ SetActiveTab
  \/ SetSelectedLayerIndex
  \/ SetCutMode
  \/ ToggleInverted
  \/ HandleImageUpload
  \/ OptimizedImgOnload

\* The component under the controls of layers, thresholds and cut guides.
Spec == Init /\ [][Next]_vars

NextColor ==
  \/ Commit
  \/ SetLayerCount
  \/ HandleInkColorChange
  \/ ToggleColorMode
  \/ ToggleBlendMode
  \/ SetActiveTab
  \/ HandleImageUpload
  \/ OptimizedImgOnload

\* The component under the controls of layers and colours.
SpecColor == Init /\ [][NextColor]_vars

NextCrop ==
  \/ Commit
  \/ HandleImageUpload
  \/ OptimizedImgOnload
  \/ StartCropMode
  \/ CancelCrop
  \/ HandleMouseDown
  \/ HandleMouseMove
  \/ HandleMouseUp
  \/ ApplyCrop
  \/ NewImgOnload
  \/ ResetToOriginal

\* Upload, crop with the mouse and reset, with the image-load callbacks in
\* any order.
SpecCrop == Init /\ [][NextCrop]_vars

NextLoads ==
  \/ Commit
  \/ HandleImageUploadAny
  \/ OptimizedImgOnload
  \/ StartCropMode
  \/ CancelCrop
  \/ ApplyCrop
  \/ NewImgOnload
  \/ ResetToOriginal
  \/ HandleDownloadAll
  \/ ExportCutGuide
  \/ ExportFinish

\* Two uploads, crop, reset and batch export, with the image-load callbacks
\* and the export's timers in any order.
SpecLoads == Init /\ [][NextLoads]_vars

NextExport ==
  \/ Commit
  \/ SetLayerCount
  \/ ToggleColorMode
  \/ SetActiveTab
  \/ SetCutMode
  \/ ToggleInverted
  \/ HandleImageUpload
  \/ OptimizedImgOnload
  \/ StartCropMode
  \/ CancelCrop
  \/ HandleDownloadAll
  \/ ExportCutGuide
  \/ ExportFinish

\* Batch export, with the controls whose values it reads.
SpecExport == Init /\ [][NextExport]_vars

\* ------------------------------------------------- claims about the engine

\* A normal render by the Main Effect has happened; pixel i of its output is
\* made from pixel i of its source.
Rendered == lastCall.by = "effect" /\ lastCall.result.kind = "normal"

RenderedPixels == 1..Len(lastCall.result.data)

InPx(i) == lastCall.source.data[i]
OutPx(i) == lastCall.result.data[i]

IsBlack(px) == px.r = 0 /\ px.g = 0 /\ px.b = 0
IsWhite(px) == px.r = 255 /\ px.g = 255 /\ px.b = 255

WellFormed(config) ==
  /\ config.layerCount >= 2
  /\ Len(config.thresholds) = config.layerCount - 1
  /\ Len(config.inkColors) = config.layerCount - 1
  /\ config.selectedLayerIndex \in 0..(config.layerCount - 2)

\* The index of the first threshold, in ascending order, strictly greater than
\* the luminance 0.299 R + 0.587 G + 0.114 B: the number of thresholds that are
\* at most the luminance (layerCount - 1 when none exceeds it).
FirstGreater(px, ths) ==
  Cardinality({k \in 1..Len(ths) : 1000 * ths[k] <= Gray1000(px)})

\* C1: in every render of a well-formed configuration, each pixel's bucket is
\* the index of the first sorted threshold strictly greater than the luminance
\* 0.299R + 0.587G + 0.114B (layerCount - 1 when there is none, a luminance
\* equal to a threshold going to the lighter bucket), and the configuration's
\* threshold list is the list as it was before the render.
C1_BucketIsFirstGreater ==
  Rendered /\ WellFormed(lastCall.config) =>
    /\ \A i \in RenderedPixels :
         bucketIndex(InPx(i), lastCall.config)
           = FirstGreater(InPx(i), lastCall.config.thresholds)
    /\ thresholds = lastCall.config.thresholds

\* C2: in a Stack cut guide of a well-formed configuration a pixel is black
\* iff (luminance < the sorted threshold of index (layerCount - 2) -
\* selectedStep) XOR inverted, and white otherwise.
C2_StackBlackIffBelow ==
  Rendered /\ WellFormed(lastCall.config)
    /\ lastCall.config.activeTab = "layers" /\ lastCall.config.cutMode = "stack" =>
    LET config == lastCall.config
        cut == SortAsc(config.thresholds)[(config.layerCount - 2)
                                          - config.selectedLayerIndex + 1]
    IN \A i \in RenderedPixels :
         /\ IsBlack(OutPx(i)) <=> ((Gray1000(InPx(i)) < 1000 * cut) # config.inverted)
         /\ IsBlack(OutPx(i)) \/ IsWhite(OutPx(i))

\* The bucket the composite view gives the pixel, read off its grayscale
\* output.
CompositeGray(px, config) ==
  ProcessPixel(px, [config EXCEPT !.activeTab = "composite",
                                  !.isColorMode = FALSE]).r

\* C3: in a Zone cut guide of a well-formed configuration a pixel is black iff
\* (the bucket the composite view computes for it equals targetBucket =
\* (layerCount - 1) - (selectedStep + 1)) XOR inverted, and white otherwise.
C3_ZoneBlackIffTargetBucket ==
  Rendered /\ WellFormed(lastCall.config)
    /\ lastCall.config.activeTab = "layers" /\ lastCall.config.cutMode = "zone" =>
    LET config == lastCall.config
        targetBucket == (config.layerCount - 1) - (config.selectedLayerIndex + 1)
        \* the grayscale value of a bucket is one-to-one on 0 .. layerCount - 1
        targetGray == (2 * 255 * targetBucket + (config.layerCount - 1))
                        \div (2 * (config.layerCount - 1))
    IN \A i \in RenderedPixels :
         /\ IsBlack(OutPx(i)) <=>
              ((CompositeGray(InPx(i), config) = targetGray) # config.inverted)
         /\ IsBlack(OutPx(i)) \/ IsWhite(OutPx(i))

\* The spec's scenario: gray 128, three layers, thresholds [85, 170], step 0
\* in Zone mode is all black, and all white when inverted.
C3_Witness ==
  /\ Rendered
  /\ lastCall.config.activeTab = "layers" /\ lastCall.config.cutMode = "zone"
  /\ lastCall.config.layerCount = 3 /\ lastCall.config.thresholds = <<85, 170>>
  /\ lastCall.config.selectedLayerIndex = 0
  /\ lastCall.config.inverted
  /\ InPx(1) = Pixel(128, 128, 128, 255)
  /\ IsWhite(OutPx(1))

\* C5: every cut-guide render of a well-formed configuration is bitonal and
\* keeps the alpha byte: each output pixel is (0,0,0) or (255,255,255) with
\* the alpha of the input pixel.
C5_CutGuideBitonal ==
  Rendered /\ WellFormed(lastCall.config) /\ lastCall.config.activeTab = "layers" =>
    \A i \in RenderedPixels :
      /\ IsBlack(OutPx(i)) \/ IsWhite(OutPx(i))
      /\ OutPx(i).a = InPx(i).a

C5_Witness ==
  /\ Rendered /\ lastCall.config.activeTab = "layers"
  /\ lastCall.config.layerCount = MaxLayerCount
  /\ lastCall.config.selectedLayerIndex = MaxLayerCount - 2
  /\ lastCall.config.inverted
  /\ \E i \in RenderedPixels : InPx(i).a = 128 /\ IsBlack(OutPx(i))

\* paperColor multiply-blended with the first n inks, in that order.
RECURSIVE PaperTimesInks(_, _)
PaperTimesInks(config, n) ==
  IF n = 0 THEN hexToRgb(config.paperColor)
  ELSE LET under == PaperTimesInks(config, n - 1)
           ink == hexToRgb(config.inkColors[n])
       IN [r |-> (under.r * ink.r) \div 255,
           g |-> (under.g * ink.g) \div 255,
           b |-> (under.b * ink.b) \div 255]

\* C6: in a colour composite render of a well-formed configuration the colour
\* table has layerCount entries; with inksToApply = (layerCount - 1) - b the
\* entry of bucket b is, under Multiply, paperColor blended with inks
\* 0 .. inksToApply - 1 in order and, under Opaque, ink inksToApply - 1 when
\* inksToApply > 0 and paperColor otherwise; each pixel shows the entry of its
\* bucket.
C6_BucketColorTable ==
  Rendered /\ WellFormed(lastCall.config)
    /\ lastCall.config.activeTab = "composite" /\ lastCall.config.isColorMode =>
    LET config == lastCall.config
        table == bucketColors(config)
    IN /\ Len(table) = config.layerCount
       /\ \A b \in 0..(config.layerCount - 1) :
            LET inksToApply == (config.layerCount - 1) - b
            IN table[b + 1] =
                 IF config.blendMode = "multiply"
                 THEN PaperTimesInks(config, inksToApply)
                 ELSE IF inksToApply > 0
                      THEN hexToRgb(config.inkColors[inksToApply])
                      ELSE hexToRgb(config.paperColor)
       /\ table[config.layerCount] = hexToRgb(config.paperColor)
       /\ \A i \in RenderedPixels :
            LET c == table[bucketIndex(InPx(i), config) + 1]
            IN OutPx(i) = [r |-> c.r, g |-> c.g, b |-> c.b, a |-> InPx(i).a]

\* White paper with the ink (128, 64, 0) twice under Multiply: the darkest
\* bucket shows (64, 16, 0).
C6_Witness ==
  /\ Rendered
  /\ lastCall.config.activeTab = "composite" /\ lastCall.config.isColorMode
  /\ lastCall.config.blendMode = "multiply"
  /\ lastCall.config.layerCount = 3
  /\ lastCall.config.paperColor = White
  /\ lastCall.config.inkColors = <<Brown, Brown>>
  /\ InPx(1) = Pixel(0, 0, 0, 255)
  /\ OutPx(1) = Pixel(64, 16, 0, 255)

\* C7: in a grayscale composite render of a well-formed configuration every
\* output pixel has R = G = B = round(bucket / (layerCount - 1) * 255) for the
\* pixel's bucket (the integer nearest to the quotient, a half rounding up),
\* its alpha is the input's and the output has the input's width and height.
C7_GrayscaleComposite ==
  Rendered /\ WellFormed(lastCall.config)
    /\ lastCall.config.activeTab = "composite" /\ ~lastCall.config.isColorMode =>
    LET config == lastCall.config
        d == config.layerCount - 1
    IN /\ lastCall.result.width = lastCall.source.width
       /\ lastCall.result.height = lastCall.source.height
       /\ Len(lastCall.result.data) = Len(lastCall.source.data)
       /\ \A i \in RenderedPixels :
            LET v == OutPx(i).r
                bucket == bucketIndex(InPx(i), config)
            IN /\ OutPx(i).g = v /\ OutPx(i).b = v
               /\ OutPx(i).a = InPx(i).a
               /\ -d < 2 * d * v - 2 * 255 * bucket
               /\ 2 * d * v - 2 * 255 * bucket <= d

\* The spec's scenario: gray (128,128,128,255), three layers, thresholds
\* [85, 170] gives 128 with alpha 255.
C7_Witness ==
  /\ Rendered
  /\ lastCall.config.activeTab = "composite" /\ ~lastCall.config.isColorMode
  /\ lastCall.config.layerCount = 3 /\ lastCall.config.thresholds = <<85, 170>>
  /\ InPx(1) = Pixel(128, 128, 128, 255)
  /\ OutPx(1) = Pixel(128, 128, 128, 255)

\* ------------------------------------------- claims about the component

\* A cut guide drawn by the Main Effect of a render after which no further
\* render is due.
CutGuideShown ==
  /\ lastCall.by = "effect" /\ lastCall.result.kind = "normal"
  /\ pending = "none"
  /\ lastCall.config.activeTab = "layers"

\* C4: for every cut guide the program renders (either strategy, any image,
\* thresholds, layerCount and selected step it can reach), the render of the
\* same input with inverted toggled is the pixel-wise complement: each black
\* pixel becomes white and each white pixel becomes black.
C4_InvertIsComplement ==
  CutGuideShown =>
    \A i \in RenderedPixels :
      LET toggled == ProcessPixel(InPx(i), [lastCall.config EXCEPT
                                              !.inverted = ~lastCall.config.inverted])
      IN /\ IsBlack(OutPx(i)) => IsWhite(toggled)
         /\ IsWhite(OutPx(i)) => IsBlack(toggled)

\* C9: at every invocation of the engine, after any sequence of layer-count
\* changes, ink-colour edits and uploads, the inkColors list of the
\* configuration the invocation uses has exactly layerCount - 1 entries.
C9_InkCountIsLayerCountMinusOne ==
  lastCall.by = "effect" =>
    Len(lastCall.config.inkColors) = lastCall.config.layerCount - 1

\* C10: after any sequence of UI operations (selecting a cut stage, changing
\* layerCount among 3, 4, 5, switching tab or strategy), whenever a cut guide
\* is rendered the selected step lies in 0 .. layerCount - 2, so that the
\* Stack threshold index and the Zone target bucket are not negative.
C10_SelectedStepInRange ==
  CutGuideShown =>
    /\ lastCall.config.selectedLayerIndex \in 0..(lastCall.config.layerCount - 2)
    /\ Len(lastCall.config.thresholds) - 1 - lastCall.config.selectedLayerIndex >= 0
    /\ (lastCall.config.layerCount - 1) - (lastCall.config.selectedLayerIndex + 1) >= 0

\* The engine's output for a configuration and a source of the canvas's size.
EngineOutput(config, source) ==
  [i \in 1..Len(source.data) |-> ProcessPixel(source.data[i], config)]

\* C8: a batch export with a working image emits exactly layerCount files in
\* this order: first the composite render, made in composite view whatever tab
\* is selected, then the cut guide of step 0, 1, ..., layerCount - 2 in
\* increasing order, each made with the inverted, cutMode and isColorMode of
\* the time of the export and with crop mode off; no step is skipped or
\* repeated.
C8_ExportFilesInOrder ==
  LET atExport == exportClosure.config
      modePrefix == IF atExport.cutMode = "zone" THEN "isolated" ELSE "reduction"
  IN /\ exportI >= 0 =>
          Len(files) = exportI + 1 /\ exportI <= atExport.layerCount - 1
     /\ (~isExporting /\ files # <<>>) => Len(files) = atExport.layerCount
     /\ \A k \in 1..Len(files) :
          LET f == files[k]
          IN /\ f.canvas.kind = "normal"
             /\ f.canvas.data = EngineOutput(f.config, f.source)
             /\ f.config =
                  IF k = 1
                  THEN [atExport EXCEPT !.activeTab = "composite",
                                        !.isCropping = FALSE]
                  ELSE [atExport EXCEPT !.activeTab = "layers",
                                        !.selectedLayerIndex = k - 2,
                                        !.isCropping = FALSE]
             /\ f.name = IF k = 1 THEN <<"preview", 0>> ELSE <<modePrefix, k - 1>>

\* An export of five files started on the Cut Guides tab, inverted, in Zone
\* mode, that has finished after the layer count, the inversion and crop mode
\* were changed under it.
C8_Witness ==
  /\ ~isExporting /\ Len(files) = MaxLayerCount
  /\ exportClosure.config.activeTab = "layers"
  /\ exportClosure.config.cutMode = "zone"
  /\ exportClosure.config.inverted
  /\ files[1].config.activeTab = "composite"
  /\ files[MaxLayerCount].name = <<"isolated", MaxLayerCount - 1>>
  /\ layerCount = 3 /\ ~inverted /\ isCropping

\* C11: in every render the program performs, after any sequence of
\* layer-count changes and slider edits, the threshold list has exactly
\* layerCount - 1 entries and every bucket index computed (composite view and
\* Zone cut guides compute one) lies in 0 .. layerCount - 1.
C11_BucketInRange ==
  lastCall.by = "effect" /\ lastCall.result.kind # "crop"
    /\ (lastCall.config.activeTab = "composite" \/ lastCall.config.cutMode = "zone") =>
    /\ Len(lastCall.config.thresholds) = lastCall.config.layerCount - 1
    /\ \A i \in 1..Len(lastCall.source.data) :
         bucketIndex(InPx(i), lastCall.config) \in 0..(lastCall.config.layerCount - 1)

\* ------------------------------------------------- claims about the images

\* C12: once an upload has established the master image, no startCropMode,
\* mouse selection, applyCrop, cancelCrop, resetToOriginal, render or export
\* changes it: every step that changes the master is the onload of an upload,
\* which installs the uploaded image.
C12_MasterChangesOnlyByUpload ==
  [][originalImageRef' # originalImageRef =>
       \E l \in loads : /\ l.kind = "upload"
                        /\ originalImageRef' = l.img
                        /\ loads' = loads \ {l}]_vars

\* A crop of the master is the working image, the master being as uploaded.
C12_Witness ==
  /\ originalImageRef \in UploadImages
  /\ sourceImageRef # originalImageRef
  /\ sourceImageRef = CropImage(originalImageRef, Rect(1, 0, 1, 1))
  /\ image = sourceImageRef

\* C13: resetToOriginal with a master present makes the working image and the
\* working dimensions those of the master, and the working image then stays
\* equal to the master until the user next applies a crop or uploads (the
\* reset also leaves crop mode and sets the crop rectangle to the master's
\* bounds, which the user may change afterwards).
C13_WorkingIsMasterSinceReset ==
  sinceReset =>
    /\ sourceImageRef = originalImageRef
    /\ image = originalImageRef
    /\ imageDimensions = [width |-> originalImageRef.width,
                          height |-> originalImageRef.height]

\* The 1:1 copy of the region of the master that starts at (x, y) and is w
\* wide and h high.
RegionCopy(master, x, y, w, h) ==
  [width |-> w, height |-> h,
   data |-> [i \in 1..(w * h) |->
               master.data[(y + ((i - 1) \div w)) * master.width
                           + x + ((i - 1) % w) + 1]]]

\* The rectangle with a negative w or h turned: (x + w, |w|) and (y + h, |h|).
Normalized(rect) ==
  Rect(IF rect.w < 0 THEN rect.x + rect.w ELSE rect.x,
       IF rect.h < 0 THEN rect.y + rect.h ELSE rect.y,
       IF rect.w < 0 THEN -rect.w ELSE rect.w,
       IF rect.h < 0 THEN -rect.h ELSE rect.h)

\* C14: applyCrop with a rectangle of negative w and/or h produces the same
\* working image and dimensions as applyCrop with the normalized rectangle,
\* a 1:1 copy of that region of the master.
C14_NegativeRectAsNormalized ==
  isCropping /\ cropRect # NoRect /\ cropRect.w # 0 /\ cropRect.h # 0 =>
    LET n == Normalized(cropRect)
    IN /\ applyCrop(cropRect, originalImageRef) = applyCrop(n, originalImageRef)
       /\ \A l \in applyCrop(cropRect, originalImageRef) :
            /\ l.img = RegionCopy(originalImageRef, n.x, n.y, n.w, n.h)
            /\ l.width = n.w /\ l.height = n.h

\* Apply Crop has been clicked on a rectangle dragged up and to the left.
C14_Witness ==
  /\ isCropping /\ cropRect.w < 0 /\ cropRect.h < 0
  /\ applyCrop(cropRect, originalImageRef) # {}
  /\ applyCrop(cropRect, originalImageRef) \subseteq loads

\* C15: applyCrop with a degenerate rectangle (w = 0 or h = 0, as a click
\* without drag leaves it), with no rectangle or with no master starts no
\* image load and sets no state: working image, working dimensions, master
\* and crop mode stay as they are.
C15_DegenerateCropIsNoOp ==
  cropRect = NoRect \/ cropRect.w = 0 \/ cropRect.h = 0
    \/ originalImageRef = NoImage =>
    applyCrop(cropRect, originalImageRef) = {}

\* In crop mode after a click without drag, nothing loading.
C15_Witness ==
  /\ isCropping /\ originalImageRef # NoImage
  /\ cropRect # NoRect /\ cropRect.w = 0 /\ cropRect.h = 0
  /\ ~isSelectingCrop
  /\ loads = {}

\* ------------------------------------------ further claims about the engine

\* C16: a render invoked with a malformed configuration (layerCount < 2,
\* thresholds not of length layerCount - 1, selected step outside
\* 0 .. layerCount - 2, or inkColors not of length layerCount - 1) is rejected
\* with an error and produces no output image; the one exception is Stack mode
\* with a negative threshold index, which gives the all-white stencil.
C16_MalformedConfigRejected ==
  lastCall.by = "effect" /\ lastCall.result.kind # "crop"
    /\ ~WellFormed(lastCall.config) =>
    \/ lastCall.result.kind = "throw"
    \/ /\ lastCall.config.activeTab = "layers"
       /\ lastCall.config.cutMode = "stack"
       /\ Len(lastCall.config.thresholds) - 1
            - lastCall.config.selectedLayerIndex < 0
       /\ lastCall.result.kind = "normal"
       /\ \A i \in RenderedPixels : IsWhite(OutPx(i))

\* The pixel the engine gives for the step s, all else as in the render.
AtStep(px, config, s) ==
  ProcessPixel(px, [config EXCEPT !.selectedLayerIndex = s])

\* C17: Stack stencils are cumulative: for a fixed image, thresholds and
\* layerCount and inverted = false, every pixel kept (black) at step s + 1 is
\* kept at step s, for every s in 0 .. layerCount - 3.
C17_StackStencilsCumulative ==
  Rendered /\ WellFormed(lastCall.config)
    /\ lastCall.config.activeTab = "layers" /\ lastCall.config.cutMode = "stack"
    /\ ~lastCall.config.inverted =>
    \A s \in 0..(lastCall.config.layerCount - 3) :
      \A i \in RenderedPixels :
        IsBlack(AtStep(InPx(i), lastCall.config, s + 1))
          => IsBlack(AtStep(InPx(i), lastCall.config, s))

\* Thresholds held in descending order; a pixel kept at the first of two
\* steps and not at the second.
C17_Witness ==
  /\ Rendered /\ lastCall.config.activeTab = "layers"
  /\ lastCall.config.cutMode = "stack" /\ ~lastCall.config.inverted
  /\ lastCall.config.layerCount = 3
  /\ lastCall.config.thresholds = <<170, 85>>
  /\ lastCall.config.selectedLayerIndex = 0
  /\ \E i \in RenderedPixels :
       /\ IsBlack(OutPx(i))
       /\ IsWhite(AtStep(InPx(i), lastCall.config, 1))

\* The steps of 0 .. layerCount - 2 whose Zone stencil keeps the pixel.
KeptAtSteps(px, config) ==
  {s \in 0..(config.layerCount - 2) : IsBlack(AtStep(px, config, s))}

\* C18: Zone stencils are mutually exclusive: for a fixed image, thresholds
\* and layerCount and inverted = false, a pixel is kept (black) by exactly one
\* step of 0 .. layerCount - 2 when its bucket is below layerCount - 1 and by
\* no step when it is in the paper bucket.
C18_ZoneStencilsExclusive ==
  Rendered /\ WellFormed(lastCall.config)
    /\ lastCall.config.activeTab = "layers" /\ lastCall.config.cutMode = "zone"
    /\ ~lastCall.config.inverted =>
    \A i \in RenderedPixels :
      Cardinality(KeptAtSteps(InPx(i), lastCall.config))
        = IF bucketIndex(InPx(i), lastCall.config) < lastCall.config.layerCount - 1
          THEN 1 ELSE 0

\* Five layers: a pixel of the darkest bucket is kept by the last step alone.
C18_Witness ==
  /\ Rendered /\ lastCall.config.activeTab = "layers"
  /\ lastCall.config.cutMode = "zone" /\ ~lastCall.config.inverted
  /\ lastCall.config.layerCount = MaxLayerCount
  /\ lastCall.config.selectedLayerIndex = MaxLayerCount - 2
  /\ \E i \in RenderedPixels :
       /\ IsBlack(OutPx(i))
       /\ bucketIndex(InPx(i), lastCall.config) = 0
       /\ KeptAtSteps(InPx(i), lastCall.config) = {MaxLayerCount - 2}

\* ------------------------------------------- claims about the interleavings

\* The crops of a master: the 1:1 copies of its non-empty regions.
CropsOf(master) ==
  {RegionCopy(master, x, y, w, h) :
     <<x, y, w, h>> \in
       {q \in (0..master.width) \X (0..master.height)
                \X (1..master.width) \X (1..master.height) :
          q[1] + q[3] <= master.width /\ q[2] + q[4] <= master.height}}

\* C19: under every interleaving of upload, applyCrop, resetToOriginal and
\* their image-load callbacks, the working image is at all times the current
\* master or a crop of the current master, and the working dimensions are
\* those of the working image: no late callback installs a working image
\* derived from a master that has since been replaced.
C19_WorkingDerivedFromMaster ==
  /\ sourceImageRef = NoImage <=> originalImageRef = NoImage
  /\ sourceImageRef # NoImage =>
       /\ sourceImageRef = originalImageRef
            \/ sourceImageRef \in CropsOf(originalImageRef)
       /\ imageDimensions = [width |-> sourceImageRef.width,
                             height |-> sourceImageRef.height]

\* C20: all files of one batch export are rendered from the working image, at
\* the dimensions and with the configuration that were current when the
\* export started, whatever the user does between its steps; and while an
\* export runs isExporting holds, which disables the button.
C20_ExportFromOneImage ==
  /\ exportI >= 0 => isExporting
  /\ \A k \in 1..Len(files) :
       /\ files[k].source = files[1].source
       /\ files[k].canvas.width = exportClosure.width
       /\ files[k].canvas.height = exportClosure.height
       /\ files[k].canvas.width = files[k].source.width
       /\ files[k].canvas.height = files[k].source.height
       /\ files[k].config.layerCount = exportClosure.config.layerCount
       /\ files[k].config.thresholds = exportClosure.config.thresholds
       /\ files[k].config.inkColors = exportClosure.config.inkColors

====
